---- MODULE Spec2Model ----
(***************************************************************************)
(* Model of src/Codeformer_adapt.py: the mask construction of              *)
(* CustomDiffusionDataset.preprocess / get_one_mask and the adversarial    *)
(* training loop of main (restoration network, masked loss, backward       *)
(* pass, PGD image update, adapter optimizer step, checkpoint writes).     *)
(*                                                                         *)
(* Pixel values are integers on a grid: the integer v stands for the       *)
(* float v / Scale, so the valid pixel range [-1, 1] is -Scale .. Scale.   *)
(* alpha and eps are given in the same grid units.  The pretrained         *)
(* networks are black boxes: their outputs (squared errors, gradient      *)
(* signs) are inputs of the actions, drawn from bounded sets.              *)
(***************************************************************************)
EXTENDS Integers, Sequences, FiniteSets, TLC

(***************************************************************************)
(* Bounds                                                                  *)
(***************************************************************************)
Scale == 2           \* grid units per 1.0 of pixel value
MaxImages == 5       \* largest number of instance images
NumPixels == 1       \* pixels modelled per image (PGD is elementwise)
MaxTrainSteps == 3   \* largest args.max_train_steps
MaxCkptSteps == 2    \* largest args.checkpointing_steps
MaxEps == 2          \* largest args.eps, in grid units
MaxAlpha == 2        \* largest args.alpha, in grid units
RandomGrid == 4      \* random.random() takes the values k / RandomGrid
Size == 8            \* args.resolution (train_dataset.size)
MaskSize == 4        \* train_dataset.mask_size (latent width of the VAE)
MaskImages == 2      \* largest number of images when every mask is explored
MaxCkptLimit == 1    \* largest args.checkpoints_total_limit

(***************************************************************************)
(* Helpers                                                                 *)
(***************************************************************************)
Min(a, b) == IF a <= b THEN a ELSE b
Max(a, b) == IF a >= b THEN a ELSE b
Abs(a) == IF a >= 0 THEN a ELSE -a

\* ceil(n / 2): the length of the first chunk of torch.chunk(t, 2, dim=0)
CeilHalf(n) == (n + 1) \div 2

RECURSIVE GCD(_, _)
GCD(a, b) == IF b = 0 THEN a ELSE GCD(b, a % b)

RECURSIVE SumOver(_, _)
\* sum of f[x] over the finite set S
SumOver(f, S) ==
    IF S = {} THEN 0
    ELSE LET x == CHOOSE y \in S : TRUE IN f[x] + SumOver(f, S \ {x})

\* Rationals as normalised pairs <<numerator, denominator>>, denominator > 0.
RatNorm(n, d) == LET g == GCD(Abs(n), d) IN <<n \div g, d \div g>>
Rat(n, d) == IF n = 0 THEN <<0, 1>> ELSE RatNorm(n, d)
RatAdd(a, b) == Rat(a[1] * b[2] + b[1] * a[2], a[2] * b[2])
RatScale(a, k) == Rat(a[1] * k, a[2])
RatDivInt(a, k) == Rat(a[1], a[2] * k)

RECURSIVE RatSum(_, _)
\* sum of the rationals f[x] over the finite set S
RatSum(f, S) ==
    IF S = {} THEN <<0, 1>>
    ELSE LET x == CHOOSE y \in S : TRUE IN RatAdd(f[x], RatSum(f, S \ {x}))

(***************************************************************************)
(* torch / numpy primitives                                                *)
(***************************************************************************)
\* torch.clamp(x, min=lo, max=hi) = min(max(x, lo), hi)
clamp(x, lo, hi) == Min(Max(x, lo), hi)

\* torch.sign
sign(g) == IF g > 0 THEN 1 ELSE IF g < 0 THEN -1 ELSE 0

\* Indices selected by the Python slice  start : stop  of a sequence of
\* length len (negative indices count from the end, out of range is clipped).
PySlice(start, stop, len) ==
    LET s == IF start < 0 THEN Max(start + len, 0) ELSE Min(start, len)
        e == IF stop < 0 THEN Max(stop + len, 0) ELSE Min(stop, len)
    IN  {k \in 0 .. (len - 1) : s <= k /\ k < e}

(***************************************************************************)
(* CustomDiffusionDataset.preprocess: the mask it returns                  *)
(***************************************************************************)
factor(size, mask_size) == size \div mask_size
MaskDim(size, mask_size) == size \div factor(size, mask_size)
MaskCellsOf(size, mask_size) ==
    (0 .. (MaskDim(size, mask_size) - 1)) \X (0 .. (MaskDim(size, mask_size) - 1))

preprocess(size, mask_size, scale, top, left) ==
    LET f == factor(size, mask_size)
        dim == MaskDim(size, mask_size)
        rows == PySlice(top \div f + 1, (top + scale) \div f - 1, dim)
        cols == PySlice(left \div f + 1, (left + scale) \div f - 1, dim)
    IN  IF scale > size
        THEN [c \in MaskCellsOf(size, mask_size) |-> 1]
        ELSE [c \in MaskCellsOf(size, mask_size) |->
                 IF c[1] \in rows /\ c[2] \in cols THEN 1 ELSE 0]

\* The values np.random can return for random_scale when aug is on:
\* randint(size // 3, size + 1) or randint(int(1.2 * size), int(1.4 * size)).
ScaleRange(size) ==
    ((size \div 3) .. size) \cup (((12 * size) \div 10) .. (((14 * size) \div 10) - 1))

\* The random draws behind one mask: the scale, and the offsets
\* top, left = randint(0, outer - inner + 1) of preprocess.
DrawsOf(size, aug) ==
    IF aug
    THEN UNION {{[scale |-> s, top |-> t, left |-> l] :
                    t \in 0 .. Abs(size - s), l \in 0 .. Abs(size - s)} :
                s \in ScaleRange(size)}
    ELSE {[scale |-> size, top |-> 0, left |-> 0]}

\* get_one_mask of main
get_one_mask(size, mask_size, draw, with_prior_preservation) ==
    LET one_mask == preprocess(size, mask_size, draw.scale, draw.top, draw.left)
    IN  IF with_prior_preservation
        THEN [c \in DOMAIN one_mask |-> one_mask[c] + 1]
        ELSE one_mask

(***************************************************************************)
(* train_dataset.image_transforms: Resize(size), crop to size x size,      *)
(* ToTensor, Normalize([0.5], [0.5])                                       *)
(***************************************************************************)
\* transforms.Resize(size): the smaller edge becomes size.  <<width, height>>
ResizedDims(size, w, h) ==
    IF w <= h THEN <<size, (size * h) \div w>> ELSE <<(size * w) \div h, size>>

\* The crops (source dims and crop offsets) RandomCrop(size) can take.
CropsOf(size, files) ==
    UNION {{[w |-> d[1], h |-> d[2], i |-> i, j |-> j] :
               i \in 0 .. (ResizedDims(size, d[1], d[2])[2] - size),
               j \in 0 .. (ResizedDims(size, d[1], d[2])[1] - size)} :
           d \in files}

\* The positions of the size x size output tensor that hold image content:
\* output pixel <<r, c>> is pixel <<r + i, c + j>> of the resized image.
image_transforms_content(size, crop) ==
    LET rd == ResizedDims(size, crop.w, crop.h)
    IN  {p \in (0 .. (size - 1)) \X (0 .. (size - 1)) :
            p[1] + crop.i < rd[2] /\ p[2] + crop.j < rd[1]}

\* ToTensor gives level k / (2 * Scale) in [0, 1]; Normalize maps x to
\* (x - 0.5) / 0.5, which is grid value k - Scale.
Normalize(k) == k - Scale
ToTensorLevels == 0 .. (2 * Scale)

\* lines 790-792: the stacked tensor of the transformed instance images
image_transforms(files) ==
    [i \in DOMAIN files |-> [p \in DOMAIN files[i] |-> Normalize(files[i][p])]]

\* (img_pixel * 127.5 + 128).clamp(0, 255).to(torch.uint8)
ToUint8(v) == clamp((255 * v + 256 * Scale) \div (2 * Scale), 0, 255)

(***************************************************************************)
(* Program constants                                                       *)
(***************************************************************************)
\* Accelerator(...) is built without gradient accumulation, so every
\* iteration synchronises gradients.
sync_gradients == TRUE
\* args.prior_loss_weight (default)
prior_loss_weight == 1
\* channels of the VAE latents (loss has shape [B, 4, h, w])
LatentChannels == 4

(***************************************************************************)
(* State                                                                   *)
(***************************************************************************)
VARIABLES
    args,               \* parsed arguments used by the loop
    is_main_process,    \* accelerator.is_main_process
    instance_files,     \* the instance images on disk, as ToTensor levels
    content,            \* per image: positions of the tensor that are image content
    original_images,    \* clone of the images as loaded
    pertubed_images,    \* the tensor PGD updates
    mask_list,          \* the masks get_one_mask built, one per image
    mask,               \* the mask tensor (batch dimension first)
    pc,                 \* position of main
    epoch,              \* loop variable of the outer for
    global_step,
    random_v,           \* random.random() of the iteration, in 1/RandomGrid
    SR_pertubed_images, \* which tensor is encoded by the VAE: "net" or "raw"
    sq_error,           \* F.mse_loss(..., reduction="none"), summed over channels
    loss,               \* the scalar that is back-propagated (a rational)
    grad,               \* pertubed_images.grad
    adv_images,
    eta,
    adapter,            \* custom_diffusion_layers and their .grad
    output_dir,         \* checkpoint folders written: step -> saved images
    hist                \* counts of backward passes, PGD updates, optimizer steps

\* the command line, parse_args and main before the images are loaded
VARIABLES
    argv,                   \* the command line as argparse reads it
    warnings,               \* warnings.warn calls of parse_args
    concepts_file,          \* the JSON list in the file --concepts_list names
    fs,                     \* directories: path -> files (name and content)
    fs0,                    \* the directories as they were when main started
    concept_i,              \* position of the loop over args.concepts_list
    instance_images_path,   \* train_dataset.instance_images_path
    input_ids               \* the prompt tokenized for each perturbed image

\* one call of CustomDiffusionDataset.preprocess
VARIABLES
    preprocess_call,        \* self.size, self.mask_size and the scale argument
    preprocess_ret          \* where the image was pasted, and the mask returned

\* the trainable and the frozen weights
VARIABLES
    requires_grad,          \* per weight: its requires_grad flag
    attn_procs,             \* unet.attn_processors: layer name -> processor
    optimizer_params,       \* the weights handed to the optimizer
    weights                 \* per weight: how many times it was updated

setup_vars == <<argv, warnings, concepts_file, fs, fs0, concept_i,
                instance_images_path, input_ids>>
preprocess_vars == <<preprocess_call, preprocess_ret>>
weight_vars == <<requires_grad, attn_procs, optimizer_params, weights>>
\* everything the training loop neither reads nor writes in this model
off_loop_vars == <<setup_vars, preprocess_vars, weight_vars>>
\* the state of the training loop other than args and pc
loop_data == <<is_main_process, instance_files, content, original_images,
               pertubed_images, mask_list, mask, epoch, global_step, random_v,
               SR_pertubed_images, sq_error, loss, grad, adv_images, eta,
               adapter, output_dir, hist>>

vars == <<args, is_main_process, instance_files, content, original_images,
          pertubed_images, mask_list, mask, pc, epoch, global_step, random_v, SR_pertubed_images,
          sq_error, loss, grad, adv_images, eta, adapter, output_dir, hist,
          off_loop_vars>>

None == "None"
\* a tensor variable that is not assigned yet
NoTensor == <<>>
\* the .grad of a tensor that has none
NoGrad == [iters |-> {}, val |-> <<>>]
NumImages == Len(original_images)
Images == 1 .. NumImages
Pixels == 1 .. NumPixels
MaskCells == MaskCellsOf(Size, MaskSize)
ZeroTensor(n) == [i \in 1 .. n |-> [p \in Pixels |-> 0]]

(***************************************************************************)
(* Init: main up to line 796 (images loaded, original_images cloned)       *)
(***************************************************************************)
\* The phases a specification does not exercise keep these fixed values.
SetupIdle ==
    /\ argv = <<>>
    /\ warnings = 0
    /\ concepts_file = <<>>
    /\ fs = <<>>
    /\ fs0 = <<>>
    /\ concept_i = 0
    /\ instance_images_path = <<>>
    /\ input_ids = <<>>

PreprocessIdle ==
    /\ preprocess_call = <<>>
    /\ preprocess_ret = <<>>

WeightsIdle ==
    /\ requires_grad = <<>>
    /\ attn_procs = <<>>
    /\ optimizer_params = {}
    /\ weights = <<>>

LoopIdle ==
    /\ is_main_process = TRUE
    /\ instance_files = <<>>
    /\ content = <<>>
    /\ pertubed_images = <<>>
    /\ original_images = <<>>
    /\ mask_list = <<>>
    /\ mask = <<>>
    /\ epoch = 0
    /\ global_step = 0
    /\ random_v = -1
    /\ SR_pertubed_images = None
    /\ sq_error = NoTensor
    /\ loss = NoTensor
    /\ grad = NoGrad
    /\ adv_images = NoTensor
    /\ eta = NoTensor
    /\ adapter = [version |-> 0, grad_iters |-> {}, seen |-> -1, stepped_with |-> {}]
    /\ output_dir = <<>>
    /\ hist = [bwd |-> 0, pgd |-> 0, opt |-> 0]

InitP(Ns, Levels, EpsS, AlphaS, StepS, CkptS, LimitS, WppS, NoaugS, MainS, Files) ==
    /\ \E e \in EpsS, a \in AlphaS, s \in StepS, k \in CkptS,
          l \in LimitS, w \in WppS, na \in NoaugS :
          args = [eps |-> e, alpha |-> a, max_train_steps |-> s,
                  checkpointing_steps |-> k, checkpoints_total_limit |-> l,
                  with_prior_preservation |-> w, noaug |-> na]
    /\ is_main_process \in MainS
    /\ \E n \in Ns :
          /\ instance_files \in [1 .. n -> [Pixels -> Levels]]
          /\ \E cr \in [1 .. n -> CropsOf(Size, Files)] :
                content = [i \in 1 .. n |-> image_transforms_content(Size, cr[i])]
    /\ pertubed_images = image_transforms(instance_files)
    /\ original_images = pertubed_images
    /\ mask_list = <<>>
    /\ mask = <<>>
    /\ pc = "masks"
    /\ epoch = 0
    /\ global_step = 0
    /\ random_v = -1                \* not drawn yet
    /\ SR_pertubed_images = None
    /\ sq_error = NoTensor
    /\ loss = NoTensor
    /\ grad = NoGrad
    /\ adv_images = NoTensor
    /\ eta = NoTensor
    /\ adapter = [version |-> 0, grad_iters |-> {}, seen |-> -1, stepped_with |-> {}]
    /\ output_dir = <<>>
    /\ hist = [bwd |-> 0, pgd |-> 0, opt |-> 0]
    /\ SetupIdle
    /\ PreprocessIdle
    /\ WeightsIdle

(***************************************************************************)
(* Mask construction, main lines 806-828                                   *)
(***************************************************************************)
BuildMasks(DrawS) ==
    /\ pc = "masks"
    /\ \E d \in [Images -> DrawS[~args.noaug]] :
          mask_list' = [i \in Images |->
                           get_one_mask(Size, MaskSize, d[i], args.with_prior_preservation)]
    /\ mask' = mask_list'
    /\ pc' = "loop"
    /\ UNCHANGED <<off_loop_vars, args, is_main_process, instance_files, content, original_images, pertubed_images,
                   epoch, global_step, random_v, SR_pertubed_images, sq_error,
                   loss, grad, adv_images, eta, adapter, output_dir, hist>>

(***************************************************************************)
(* The training loop, main lines 879-996                                   *)
(***************************************************************************)
\* for epoch in range(first_epoch, args.max_train_steps): one more iteration
EnterIteration ==
    /\ pc = "loop"
    /\ epoch < args.max_train_steps
    /\ pc' = "forward"
    /\ UNCHANGED <<off_loop_vars, args, is_main_process, instance_files, content, mask_list, original_images, pertubed_images,
                   mask, epoch, global_step, random_v, SR_pertubed_images, sq_error,
                   loss, grad, adv_images, eta, adapter, output_dir, hist>>

\* the range is exhausted: accelerator.end_training()
EndTraining ==
    /\ pc = "loop"
    /\ epoch >= args.max_train_steps
    /\ pc' = "done"
    /\ UNCHANGED <<off_loop_vars, args, is_main_process, instance_files, content, mask_list, original_images, pertubed_images,
                   mask, epoch, global_step, random_v, SR_pertubed_images, sq_error,
                   loss, grad, adv_images, eta, adapter, output_dir, hist>>

\* the restoration network on every step
SRSourceAlways(v) == "net"

\* lines 885-889: which tensor goes to vae.encode
SRSource(v) == IF 2 * v > RandomGrid THEN "net" ELSE "raw"

\* lines 884-920 and 931/941: forward pass through restoration net, VAE,
\* text encoder and UNet, and the elementwise squared error
Forward(RVs, Errs) ==
    /\ pc = "forward"
    /\ \E v \in RVs, e \in Errs[NumImages] :
          /\ random_v' = v
          /\ SR_pertubed_images' = SRSource(v)
          /\ sq_error' = e
    /\ adapter' = [adapter EXCEPT !.seen = adapter.version]
    /\ pc' = "loss"
    /\ UNCHANGED <<off_loop_vars, args, is_main_process, instance_files, content, mask_list, original_images, pertubed_images,
                   mask, epoch, global_step, loss, grad, adv_images, eta,
                   output_dir, hist>>

\* torch.chunk(t, 2, dim=0) of a batch of n: the indices of its chunks
ChunkCount(n) == IF n >= 2 THEN 2 ELSE 1
FirstChunk(n) == 1 .. CeilHalf(n)
SecondChunk(n) == (CeilHalf(n) + 1) .. n

\* (loss * mask).sum([1, 2, 3]) / mask.sum([1, 2, 3]) for one image:
\* err is summed over the channels, the mask has a single channel
\* (only evaluated with prior preservation, where every mask entry is >= 1)
MaskedImageLoss(err, m) ==
    Rat(SumOver([c \in MaskCells |-> err[c] * m[c]], MaskCells),
        SumOver(m, MaskCells))

\* F.mse_loss(..., reduction="mean") / loss.mean() over the images in S
MeanLoss(err, S) ==
    Rat(SumOver([i \in S |-> SumOver(err[i], MaskCells)], S),
        Cardinality(S) * LatentChannels * Cardinality(MaskCells))

\* lines 925-938: the loss with prior preservation; msk is the chunked mask,
\* broadcast over the batch when it holds a single entry
PriorPreservationLoss(err, msk, n) ==
    LET inst == FirstChunk(n)
        m(i) == IF Len(msk) = 1 THEN msk[1] ELSE msk[i]
        instance_loss ==
            RatDivInt(RatSum([i \in inst |-> MaskedImageLoss(err[i], m(i))], inst),
                      Cardinality(inst))
        prior_loss == MeanLoss(err, SecondChunk(n))
    IN  RatAdd(instance_loss, RatScale(prior_loss, prior_loss_weight))

\* lines 940-944: the loss without prior preservation
PlainLoss(err, msk, n) == MeanLoss(err, 1 .. n)

\* lines 925-944.  A batch of one image cannot be unpacked into two chunks
\* (ValueError), and a chunked mask whose batch is neither 1 nor the batch
\* of the instance chunk cannot be broadcast (RuntimeError).
ComputeLoss ==
    /\ pc = "loss"
    /\ IF args.with_prior_preservation
       THEN IF ChunkCount(NumImages) < 2
            THEN /\ pc' = "crashed"
                 /\ UNCHANGED <<mask, loss>>
            ELSE /\ mask' = SubSeq(mask, 1, CeilHalf(Len(mask)))
                 /\ IF Len(mask') \in {1, CeilHalf(NumImages)}
                    THEN /\ loss' = PriorPreservationLoss(sq_error, mask', NumImages)
                         /\ pc' = "backward"
                    ELSE /\ pc' = "crashed"
                         /\ UNCHANGED loss
       ELSE /\ loss' = PlainLoss(sq_error, mask, NumImages)
            /\ pc' = "backward"
            /\ UNCHANGED mask
    /\ UNCHANGED <<off_loop_vars, args, is_main_process, instance_files, content, mask_list, original_images, pertubed_images,
                   epoch, global_step, random_v, SR_pertubed_images, sq_error,
                   grad, adv_images, eta, adapter, output_dir, hist>>

\* line 946: accelerator.backward(loss) accumulates into the .grad of the
\* leaves: pertubed_images and the adapter parameters
Backward(Grads) ==
    /\ pc = "backward"
    /\ \E g \in Grads[NumImages] :
          grad' = [iters |-> grad.iters \cup {epoch},
                   val |-> g]
    /\ adapter' = [adapter EXCEPT !.grad_iters = @ \cup {epoch}]
    /\ hist' = [hist EXCEPT !.bwd = @ + 1]
    /\ pc' = "pgd"
    /\ UNCHANGED <<off_loop_vars, args, is_main_process, instance_files, content, mask_list, original_images, pertubed_images,
                   mask, epoch, global_step, random_v, SR_pertubed_images, sq_error,
                   loss, adv_images, eta, output_dir>>

\* line 959: adv_images = pertubed_images + alpha * pertubed_images.grad.sign()
adv_pixel(old, g, alpha) == old + alpha * sign(g)
\* eta without the clipping to the eps ball
eta_pixel_unclipped(adv, orig, eps) == adv - orig
\* line 960: eta = torch.clamp(adv_images - original_images, min=-eps, max=+eps)
eta_pixel(adv, orig, eps) == clamp(adv - orig, -eps, eps)
\* the new pixel without the clipping to the pixel range
new_pixel_unclamped(orig, e) == orig + e
\* line 961: torch.clamp(original_images + eta, min=-1, max=+1)
new_pixel(orig, e) == clamp(orig + e, -Scale, Scale)

\* a PGD update that also writes the result into original_images
PGDStepInPlace ==
    /\ pc = "pgd"
    /\ grad # NoGrad
    /\ adv_images' = [i \in Images |-> [p \in Pixels |->
                         adv_pixel(pertubed_images[i][p], grad.val[i][p], args.alpha)]]
    /\ eta' = [i \in Images |-> [p \in Pixels |->
                  eta_pixel(adv_images'[i][p], original_images[i][p], args.eps)]]
    /\ pertubed_images' = [i \in Images |-> [p \in Pixels |->
                              new_pixel(original_images[i][p], eta'[i][p])]]
    /\ original_images' = pertubed_images'
    /\ grad' = NoGrad
    /\ hist' = [hist EXCEPT !.pgd = @ + 1]
    /\ pc' = "optimizer"
    /\ UNCHANGED <<off_loop_vars, args, is_main_process, instance_files, content, mask_list,
                   mask, epoch, global_step, random_v,
                   SR_pertubed_images, sq_error, loss, adapter, output_dir>>

\* lines 955-961: the PGD update; the result is a new detached tensor, so
\* its .grad is None
PGDStep ==
    /\ pc = "pgd"
    /\ grad # NoGrad
    /\ adv_images' = [i \in Images |-> [p \in Pixels |->
                         adv_pixel(pertubed_images[i][p], grad.val[i][p], args.alpha)]]
    /\ eta' = [i \in Images |-> [p \in Pixels |->
                  eta_pixel(adv_images'[i][p], original_images[i][p], args.eps)]]
    /\ pertubed_images' = [i \in Images |-> [p \in Pixels |->
                              new_pixel(original_images[i][p], eta'[i][p])]]
    /\ grad' = NoGrad
    /\ hist' = [hist EXCEPT !.pgd = @ + 1]
    /\ pc' = "optimizer"
    /\ UNCHANGED <<off_loop_vars, args, is_main_process, instance_files, content, mask_list,
                   original_images, mask, epoch, global_step, random_v,
                   SR_pertubed_images, sq_error, loss, adapter, output_dir>>

\* an optimizer step that leaves the gradients in place
OptimizerStepKeepGrads ==
    /\ pc = "optimizer"
    /\ adapter' = [adapter EXCEPT !.version = @ + 1,
                                  !.stepped_with = adapter.grad_iters]
    /\ hist' = [hist EXCEPT !.opt = @ + 1]
    /\ pc' = "bookkeeping"
    /\ UNCHANGED <<off_loop_vars, args, is_main_process, instance_files, content, mask_list,
                   original_images, pertubed_images,
                   mask, epoch, global_step, random_v, SR_pertubed_images, sq_error,
                   loss, grad, adv_images, eta, output_dir>>

\* lines 963-966: optimizer.step(), lr_scheduler.step(), optimizer.zero_grad()
OptimizerStep ==
    /\ pc = "optimizer"
    /\ adapter' = [adapter EXCEPT !.version = @ + 1,
                                  !.stepped_with = adapter.grad_iters,
                                  !.grad_iters = {}]
    /\ hist' = [hist EXCEPT !.opt = @ + 1]
    /\ pc' = "bookkeeping"
    /\ UNCHANGED <<off_loop_vars, args, is_main_process, instance_files, content, mask_list, original_images, pertubed_images,
                   mask, epoch, global_step, random_v, SR_pertubed_images, sq_error,
                   loss, grad, adv_images, eta, output_dir>>

\* lines 977-985: the images written to the folder of a checkpoint
SavedImages(imgs) == [i \in DOMAIN imgs |-> [p \in Pixels |-> ToUint8(imgs[i][p])]]

\* a checkpoint test that ignores which process runs it
IsCheckpointAnyProcess(gs, checkpointing_steps, main) ==
    gs % checkpointing_steps = 0

\* line 973-974: is a checkpoint written at step gs
IsCheckpoint(gs, checkpointing_steps, main) ==
    gs % checkpointing_steps = 0 /\ main

\* lines 969-994: count the step, write the checkpoint, leave the inner loop
Bookkeeping ==
    /\ pc = "bookkeeping"
    /\ IF sync_gradients
       THEN /\ global_step' = global_step + 1
            /\ IF IsCheckpoint(global_step', args.checkpointing_steps, is_main_process)
               THEN output_dir' = (global_step' :> SavedImages(pertubed_images)) @@ output_dir
               ELSE UNCHANGED output_dir
       ELSE UNCHANGED <<global_step, output_dir>>
    /\ epoch' = epoch + 1
    /\ pc' = "loop"
    /\ UNCHANGED <<off_loop_vars, args, is_main_process, instance_files, content, mask_list, original_images, pertubed_images,
                   mask, random_v, SR_pertubed_images, sq_error, loss, grad,
                   adv_images, eta, adapter, hist>>

(***************************************************************************)
(* Input sets of the black boxes, by batch size                            *)
(***************************************************************************)
RandomVs == 0 .. (RandomGrid - 1)

ZeroErr(n) == [i \in 1 .. n |-> [c \in MaskCells |-> 0]]
\* squared errors that are zero, or nonzero in exactly one latent cell
OneHotErrs ==
    [n \in 1 .. MaxImages |->
        {ZeroErr(n)} \cup
        {[i \in 1 .. n |-> [c \in MaskCells |-> IF i = j /\ c = d THEN 1 ELSE 0]] :
            j \in 1 .. n, d \in MaskCells}]
ZeroErrs == [n \in 1 .. MaxImages |-> {ZeroErr(n)}]

GradVals == {-2, 0, 1}
AllGrads == [n \in 1 .. MaxImages |-> [1 .. n -> [Pixels -> GradVals]]]
UniformGrads ==
    [n \in 1 .. MaxImages |-> {[i \in 1 .. n |-> [p \in Pixels |-> g]] : g \in GradVals}]
ZeroGrads == [n \in 1 .. MaxImages |-> {ZeroTensor(n)}]

AllDraws == [aug \in BOOLEAN |-> DrawsOf(Size, aug)]

(***************************************************************************)
(* Specifications                                                          *)
(***************************************************************************)
SquareFiles == {<<Size, Size>>}
\* args.checkpoints_total_limit: None is the empty set, the limit k is {k}
NoLimit == {}
CkptLimits == {NoLimit} \cup {{k} : k \in 1 .. MaxCkptLimit}
MixedFiles == {<<Size, Size>>, <<Size, Size + 2>>, <<2 * Size, Size>>}

\* Loop control: every batch size, step count, checkpoint period and
\* prior-preservation setting; one pixel value, no augmentation.
Init ==
    InitP(1 .. MaxImages, {Scale}, {1}, {1}, 0 .. MaxTrainSteps, 1 .. MaxCkptSteps,
          CkptLimits, BOOLEAN, {TRUE}, BOOLEAN, SquareFiles)

Next ==
    \/ BuildMasks(AllDraws)
    \/ EnterIteration
    \/ Forward(RandomVs, ZeroErrs)
    \/ ComputeLoss
    \/ Backward(UniformGrads)
    \/ PGDStep
    \/ OptimizerStep
    \/ Bookkeeping
    \/ EndTraining

Spec == Init /\ [][Next]_vars

\* Pixel arithmetic: one image, every original pixel value, eps, alpha and
\* gradient (the PGD update is elementwise).
InitPGD ==
    InitP({1}, ToTensorLevels, 0 .. MaxEps, 0 .. MaxAlpha, {MaxTrainSteps},
          {MaxCkptSteps}, {NoLimit}, {FALSE}, {TRUE}, {TRUE}, SquareFiles)

NextPGD ==
    \/ BuildMasks(AllDraws)
    \/ EnterIteration
    \/ Forward({0}, ZeroErrs)
    \/ ComputeLoss
    \/ Backward(AllGrads)
    \/ PGDStep
    \/ OptimizerStep
    \/ Bookkeeping
    \/ EndTraining

SpecPGD == InitPGD /\ [][NextPGD]_vars

\* Masks and loss: every mask get_one_mask can build, every one-hot error.
InitMask ==
    InitP(1 .. MaskImages, {Scale}, {1}, {1}, {1}, {1}, {NoLimit}, BOOLEAN, BOOLEAN,
          {TRUE}, MixedFiles)

NextMask ==
    \/ BuildMasks(AllDraws)
    \/ EnterIteration
    \/ Forward({0}, OneHotErrs)
    \/ ComputeLoss
    \/ Backward(ZeroGrads)
    \/ PGDStep
    \/ OptimizerStep
    \/ Bookkeeping
    \/ EndTraining

SpecMask == InitMask /\ [][NextMask]_vars

TypeOK ==
    /\ pc \in {"masks", "loop", "forward", "loss", "backward", "pgd", "optimizer",
               "bookkeeping", "done", "crashed"}
    /\ epoch \in 0 .. MaxTrainSteps
    /\ global_step \in 0 .. MaxTrainSteps
    /\ Len(pertubed_images) = NumImages

(***************************************************************************)
(* Properties                                                              *)
(***************************************************************************)

\* C1: right after initialisation and after every training step, every
\* pixel of every perturbed image is within eps of the original pixel and
\* within the valid pixel range [-1, 1].
C1_InEpsBallAndRange ==
    \A i \in Images, p \in Pixels :
        /\ Abs(pertubed_images[i][p] - original_images[i][p]) <= args.eps
        /\ -Scale <= pertubed_images[i][p]
        /\ pertubed_images[i][p] <= Scale

\* A second PGD update has just run and the gradient step left the eps ball.
C1_Witness ==
    /\ pc = "optimizer"
    /\ hist.pgd >= 2
    /\ args.eps > 0
    /\ \E i \in Images, p \in Pixels :
          Abs(adv_images[i][p] - original_images[i][p]) > args.eps

\* C2: the checkpoint folders on disk are exactly the positive multiples of
\* checkpointing_steps that global_step has reached, on the main process,
\* and there is none on any other process: images are written in an
\* iteration iff it moved global_step onto such a multiple.
C2_CheckpointsExactlyAtMultiples ==
    DOMAIN output_dir =
        {s \in 1 .. global_step :
            s % args.checkpointing_steps = 0 /\ is_main_process}

\* A checkpoint was written, and the last step was not a checkpoint step.
C2_Witness ==
    /\ pc = "loop"
    /\ DOMAIN output_dir # {}
    /\ global_step % args.checkpointing_steps # 0

\* C3: original_images always equals the images as first loaded.
C3_OriginalImmutable == original_images = image_transforms(instance_files)

\* PGD has moved the perturbed images away and a checkpoint was written.
C3_Witness ==
    /\ hist.pgd >= 1
    /\ pertubed_images # original_images
    /\ DOMAIN output_dir # {}

C5_AlwaysRestored == SR_pertubed_images \in {None, "net"}

\* C5 amended: a training step encodes the output of the restoration
\* network when its draw random_v exceeds 0.5, and the raw perturbed images
\* otherwise.
C5_RestoredIffDrawAboveHalf ==
    SR_pertubed_images # None =>
        /\ 2 * random_v > RandomGrid => SR_pertubed_images = "net"
        /\ 2 * random_v <= RandomGrid => SR_pertubed_images = "raw"

\* A step whose draw is at most 0.5 has encoded the raw perturbed images.
C5_Witness ==
    /\ pc = "loss"
    /\ 2 * random_v <= RandomGrid
    /\ SR_pertubed_images = "raw"

\* The loss of lines 925-944 as a function of the squared errors, with the
\* mask tensor as the loss computation left it.
LossOf(err) ==
    IF args.with_prior_preservation
    THEN PriorPreservationLoss(err, mask, NumImages)
    ELSE PlainLoss(err, mask, NumImages)

\* The squared errors with the cells zeroed where the image's mask is 0.
MaskedErr ==
    [i \in Images |-> [c \in MaskCells |->
        IF mask_list[i][c] = 0 THEN 0 ELSE sq_error[i][c]]]

\* C6: the loss that is back-propagated is masked: the squared error of a
\* latent cell whose mask entry is 0 contributes nothing to it, with and
\* without prior preservation.
C6_MaskedCellsContributeNothing ==
    pc = "backward" => loss = LossOf(MaskedErr)

\* C7: every entry of every mask built by get_one_mask is 0 or 1.
C7_MaskIsBinary ==
    \A i \in DOMAIN mask_list : \A c \in MaskCells : mask_list[i][c] \in {0, 1}

\* The pixels of the image tensor that latent cell c covers.
CellPixels(c) ==
    LET f == factor(Size, MaskSize)
    IN  ((c[1] * f) .. (c[1] * f + f - 1)) \X ((c[2] * f) .. (c[2] * f + f - 1))

\* C8: the mask of image i marks the valid region of the perturbed tensor
\* of image i: a cell is 1 exactly when the pixels it covers are image
\* content of that tensor.
C8_MaskMarksImageContent ==
    \A i \in DOMAIN mask_list : \A c \in MaskCells :
        (mask_list[i][c] = 1) <=> (CellPixels(c) \subseteq content[i])

\* Projection of x onto the interval [lo, hi].
Proj(x, lo, hi) == IF x < lo THEN lo ELSE IF x > hi THEN hi ELSE x

\* C9: a PGD update moves every pixel to the projection of
\* old + alpha * sign(g) onto [max(original - eps, -1), min(original + eps, 1)],
\* and leaves a pixel with gradient 0 that is already in that interval as
\* it is.
C9_PGDIsProjection ==
    [][(pc = "pgd" /\ pc' = "optimizer") =>
          \A i \in Images, p \in Pixels :
             LET old == pertubed_images[i][p]
                 orig == original_images[i][p]
                 g == grad.val[i][p]
                 lo == Max(orig - args.eps, -Scale)
                 hi == Min(orig + args.eps, Scale)
             IN  /\ pertubed_images'[i][p] = Proj(old + args.alpha * sign(g), lo, hi)
                 /\ (sign(g) = 0 /\ lo <= old /\ old <= hi)
                       => pertubed_images'[i][p] = old]_vars

\* A PGD update whose gradient step left the pixel range while still inside
\* the eps ball, so that the range clipping decided the result.
C9_Witness ==
    /\ pc = "optimizer"
    /\ \E i \in Images, p \in Pixels :
          /\ Abs(adv_images[i][p] - original_images[i][p]) <= args.eps
          /\ Abs(adv_images[i][p]) > Scale
          /\ Abs(pertubed_images[i][p]) = Scale

\* C10: the run ends after exactly max_train_steps iterations with
\* global_step = max_train_steps; global_step counts the iterations and
\* never exceeds max_train_steps.
C10_RunsExactlyMaxTrainSteps ==
    /\ global_step <= args.max_train_steps
    /\ global_step = epoch
    /\ pc \in {"done", "crashed"}
          => global_step = args.max_train_steps

\* C11: when checkpoints_total_limit is set, the number of checkpoint
\* folders under output_dir never exceeds it.
C11_FoldersWithinLimit ==
    \A k \in args.checkpoints_total_limit : Cardinality(DOMAIN output_dir) <= k

\* C17: at the start of every iteration the mask tensor holds one entry
\* per instance image, with or without prior preservation.
C17_MaskKeepsBatchSize ==
    pc \in {"forward", "loss"} => Len(mask) = NumImages


(***************************************************************************)
(* parse_args, lines 224-514, and main up to the tokenized prompt          *)
(***************************************************************************)
MaxClassImages == 2
MaxExisting == 2
MaxConcepts == 2
NumNoises == 2

\* the concepts a JSON file given with --concepts_list can list
JsonConcepts ==
    << [instance_prompt |-> "json instance prompt 1", class_prompt |-> "json class prompt 1",
        instance_data_dir |-> "json_instance_dir_1", class_data_dir |-> "json_class_dir_1"],
       [instance_prompt |-> "json instance prompt 2", class_prompt |-> "json class prompt 2",
        instance_data_dir |-> "json_instance_dir_2", class_data_dir |-> "json_class_dir_2"],
       [instance_prompt |-> "json instance prompt 3", class_prompt |-> "json class prompt 3",
        instance_data_dir |-> "json_instance_dir_3", class_data_dir |-> "json_class_dir_3"] >>

ConceptFiles ==
    {SubSeq(JsonConcepts, 1, n) : n \in 1 .. Min(MaxConcepts, Len(JsonConcepts))}

\* the command lines: each optional argument is given or left at its default
CommandLines ==
    [with_prior_preservation : BOOLEAN,
     concepts_list : {None, "concepts.json"},
     instance_prompt : {None, "cli instance prompt"},
     class_prompt : {None, "cli class prompt"},
     instance_data_dir : {"cli_instance_dir"},
     class_data_dir : {None, "cli_class_dir"},
     num_class_images : 0 .. MaxClassImages]

\* lines 501-507: the two raise statements
parse_args_raises_ignoring_concepts(a) ==
    /\ a.with_prior_preservation
    /\ (a.class_data_dir = None \/ a.class_prompt = None)

parse_args_raises(a) ==
    /\ a.with_prior_preservation
    /\ a.concepts_list = None
    /\ (a.class_data_dir = None \/ a.class_prompt = None)

\* lines 508-513: the warnings of the else branch
parse_args_warnings(a) ==
    IF a.with_prior_preservation THEN 0
    ELSE (IF a.class_data_dir # None THEN 1 ELSE 0)
         + (IF a.class_prompt # None THEN 1 ELSE 0)

ParseArgs ==
    /\ pc = "parse_args"
    /\ IF parse_args_raises(argv)
       THEN /\ pc' = "ValueError"
            /\ UNCHANGED <<args, warnings>>
       ELSE /\ args' = argv
            /\ warnings' = parse_args_warnings(argv)
            /\ pc' = "main"
    /\ UNCHANGED <<argv, concepts_file, fs, fs0, concept_i, instance_images_path, input_ids>>
    /\ UNCHANGED <<loop_data, preprocess_vars, weight_vars>>

(***************************************************************************)
(* Files.  A directory is the set of its files; a file has a name and, as  *)
(* content, an image.  A name f"{index}-{hash}.jpg" is the pair of the     *)
(* index and the hash; sha1 is taken to be injective on images.            *)
(***************************************************************************)
MaxInstanceFiles == 2

\* DiffusionPipeline.__call__: the image depends on the prompt and the noise
pipeline(prompt, noise) == [prompt |-> prompt, noise |-> noise]
\* hashlib.sha1(image.tobytes()).hexdigest(), line 602
sha1(image) == <<image.prompt, image.noise>>
\* line 603-605
image_filename(index, cur_class_images, image) ==
    <<index + cur_class_images, sha1(image)>>

\* a file some other tool put into the directory
ForeignFile(k) ==
    [name |-> <<-1, <<"foreign", k>>>>, image |-> pipeline("foreign", k)]
\* a file an earlier run of lines 597-607 wrote into the directory when it
\* was empty
EarlierRunFile(k) ==
    [name |-> image_filename(k, 0, pipeline("earlier run prompt", 1)),
     image |-> pipeline("earlier run prompt", 1)]
InstanceFile(k) ==
    [name |-> <<k, <<"instance", k>>>>, image |-> pipeline("instance", k)]

\* the class directories main can find: empty, or holding other tools'
\* files, or the files of an earlier run
ExistingDirs ==
    UNION {{ {ForeignFile(i) : i \in 0 .. k - 1},
             {EarlierRunFile(i) : i \in 0 .. k - 1} } : k \in 0 .. MaxExisting}

Dirs ==
    {None, "cli_instance_dir", "cli_class_dir"}
    \cup {JsonConcepts[k].instance_data_dir : k \in DOMAIN JsonConcepts}
    \cup {JsonConcepts[k].class_data_dir : k \in DOMAIN JsonConcepts}

\* lines 548-559: the concepts list main works with
load_concepts(a, file) ==
    IF a.concepts_list = None
    THEN << [instance_prompt |-> a.instance_prompt,
             class_prompt |-> a.class_prompt,
             instance_data_dir |-> a.instance_data_dir,
             class_data_dir |-> a.class_data_dir] >>
    ELSE file

\* image.save, line 607: a file of the same name is replaced
save(files, new_files) ==
    {f \in files : \A g \in new_files : g.name # f.name} \cup new_files

Shuffles(n) ==
    {f \in [1 .. n -> 1 .. n] : \A i, j \in 1 .. n : f[i] = f[j] => i = j}

RECURSIVE inst_img_paths(_, _, _)
\* lines 112-116: the (file, instance_prompt) pairs, concept after concept
inst_img_paths(concepts_list, files, k) ==
    IF k > Len(concepts_list) THEN <<>>
    ELSE LET concept == concepts_list[k]
             here == files[concept.instance_data_dir]
             names == {f.name[1] : f \in here}
             ordered == [i \in 1 .. Cardinality(here) |->
                            [file |-> <<concept.instance_data_dir,
                                        CHOOSE x \in names :
                                            Cardinality({y \in names : y < x}) = i - 1>>,
                             prompt |-> concept.instance_prompt]]
         IN  ordered \o inst_img_paths(concepts_list, files, k + 1)

InitSetupP(ClassDirs, InstanceCounts) ==
    /\ argv \in CommandLines
    /\ concepts_file \in (IF argv.concepts_list = None THEN {<<>>} ELSE ConceptFiles)
    /\ LET concepts == load_concepts(argv, concepts_file)
       IN  \E cd \in [DOMAIN concepts -> ClassDirs], n \in InstanceCounts :
              fs0 = [d \in Dirs |->
                       IF \E k \in DOMAIN concepts : concepts[k].class_data_dir = d /\ d # None
                       THEN cd[CHOOSE k \in DOMAIN concepts : concepts[k].class_data_dir = d]
                       ELSE IF \E k \in DOMAIN concepts : concepts[k].instance_data_dir = d
                       THEN {InstanceFile(i) : i \in 1 .. n}
                       ELSE {}]
    /\ fs = fs0
    /\ args = <<>>
    /\ warnings = 0
    /\ concept_i = 0
    /\ instance_images_path = <<>>
    /\ input_ids = <<>>
    /\ pc = "parse_args"
    /\ LoopIdle
    /\ PreprocessIdle
    /\ WeightsIdle

InitSetup == InitSetupP(ExistingDirs, 1 .. MaxInstanceFiles)

\* lines 548-559
LoadConcepts ==
    /\ pc = "main"
    /\ args' = [args EXCEPT !.concepts_list = load_concepts(args, concepts_file)]
    /\ concept_i' = 1
    /\ pc' = "class_images"
    /\ UNCHANGED <<argv, warnings, concepts_file, fs, fs0, instance_images_path, input_ids>>
    /\ UNCHANGED <<loop_data, preprocess_vars, weight_vars>>

\* lines 563-611, one pass of the for loop over args.concepts_list.  The
\* default collate function of the DataLoader raises TypeError on a prompt
\* that is None.
ClassImagesForConcept ==
    /\ pc = "class_images"
    /\ args.with_prior_preservation
    /\ concept_i <= Len(args.concepts_list)
    /\ LET concept == args.concepts_list[concept_i]
           class_images_dir == concept.class_data_dir
           cur_class_images == Cardinality(fs[class_images_dir])
           num_new_images == args.num_class_images - cur_class_images
       IN  IF cur_class_images < args.num_class_images
           THEN IF args.class_prompt = None
                THEN /\ pc' = "crashed"
                     /\ UNCHANGED <<fs, concept_i>>
                ELSE /\ \E noise \in [0 .. num_new_images - 1 -> 1 .. NumNoises] :
                          LET image(index) == pipeline(args.class_prompt, noise[index])
                              new_files ==
                                  {[name |-> image_filename(index, cur_class_images, image(index)),
                                    image |-> image(index)] : index \in 0 .. num_new_images - 1}
                          IN  fs' = [fs EXCEPT ![class_images_dir] = save(@, new_files)]
                     /\ concept_i' = concept_i + 1
                     /\ UNCHANGED pc
           ELSE /\ concept_i' = concept_i + 1
                /\ UNCHANGED <<fs, pc>>
    /\ UNCHANGED <<args, argv, warnings, concepts_file, fs0, instance_images_path, input_ids>>
    /\ UNCHANGED <<loop_data, preprocess_vars, weight_vars>>

\* line 562 false, or the for loop of line 563 exhausted
ClassImagesDone ==
    /\ pc = "class_images"
    /\ (~args.with_prior_preservation \/ concept_i > Len(args.concepts_list))
    /\ pc' = "dataset"
    /\ UNCHANGED <<args, argv, warnings, concepts_file, fs, fs0, concept_i,
                   instance_images_path, input_ids>>
    /\ UNCHANGED <<loop_data, preprocess_vars, weight_vars>>

\* CustomDiffusionDataset.__init__, lines 112-130: the paths are shuffled
BuildDataset ==
    /\ pc = "dataset"
    /\ LET paths == inst_img_paths(args.concepts_list, fs, 1)
       IN  \E shuffle \in Shuffles(Len(paths)) :
              instance_images_path' = [i \in 1 .. Len(paths) |-> paths[shuffle[i]]]
    /\ pc' = "tokenize"
    /\ UNCHANGED <<args, argv, warnings, concepts_file, fs, fs0, concept_i, input_ids>>
    /\ UNCHANGED <<loop_data, preprocess_vars, weight_vars>>

\* lines 798-804: one row of input_ids per image, all of them the tokens of
\* args.instance_prompt.  The tokenizer raises ValueError on None.
TokenizePrompt ==
    /\ pc = "tokenize"
    /\ IF args.instance_prompt = None
       THEN /\ pc' = "crashed"
            /\ UNCHANGED input_ids
       ELSE /\ input_ids' = [i \in 1 .. Len(instance_images_path) |-> args.instance_prompt]
            /\ pc' = "setup_done"
    /\ UNCHANGED <<args, argv, warnings, concepts_file, fs, fs0, concept_i,
                   instance_images_path>>
    /\ UNCHANGED <<loop_data, preprocess_vars, weight_vars>>

NextSetup ==
    \/ ParseArgs
    \/ LoadConcepts
    \/ ClassImagesForConcept
    \/ ClassImagesDone
    \/ BuildDataset
    \/ TokenizePrompt

SpecSetup == InitSetup /\ [][NextSetup]_vars

\* parse_args on its own: every command line, one call
InitParse == InitSetupP({{}}, {1})

SpecParse == InitParse /\ [][ParseArgs]_vars

\* C13: parse_args raises ValueError exactly when prior preservation is set,
\* no concepts list is given and class_data_dir or class_prompt is missing;
\* in every other case it returns the parsed arguments.
C13_RaisesExactlyWhenClassInputsMissing ==
    LET missing == /\ argv.with_prior_preservation
                   /\ argv.concepts_list = None
                   /\ (argv.class_data_dir = None \/ argv.class_prompt = None)
    IN  pc # "parse_args" =>
            /\ (pc = "ValueError") <=> missing
            /\ ~missing => (pc = "main" /\ args = argv)

C13_Witness ==
    /\ pc = "main"
    /\ argv.with_prior_preservation
    /\ argv.concepts_list # None
    /\ argv.class_prompt = None

\* C12: with a concepts list, the prompts of its concepts are the ones used:
\* every perturbed image is conditioned on the instance_prompt of its
\* concept, and every class image sampled for a concept is sampled from that
\* concept's class_prompt.
C12_ConceptPromptsUsed ==
    /\ pc = "setup_done" =>
          \A i \in DOMAIN input_ids : input_ids[i] = instance_images_path[i].prompt
    /\ pc \in {"class_images", "dataset", "tokenize", "setup_done", "crashed"} =>
          \A k \in DOMAIN args.concepts_list :
              LET concept == args.concepts_list[k]
              IN  \A f \in fs[concept.class_data_dir] \ fs0[concept.class_data_dir] :
                     f.image.prompt = concept.class_prompt

\* C14: with prior preservation, once the class-image generation is over
\* every concept's class_data_dir holds at least num_class_images files; a
\* directory that held that many got no new file, and one that held c fewer
\* got exactly num_class_images - c new files, their names pairwise distinct.
C14_ClassDirsFilledMinimally ==
    (pc \in {"dataset", "tokenize", "setup_done", "crashed"} /\ args.with_prior_preservation) =>
        \A k \in DOMAIN args.concepts_list :
            LET dir == args.concepts_list[k].class_data_dir
                c == Cardinality(fs0[dir])
                new_files == fs[dir] \ fs0[dir]
            IN  /\ Cardinality(fs[dir]) >= args.num_class_images
                /\ c >= args.num_class_images => new_files = {}
                /\ c < args.num_class_images =>
                      /\ Cardinality(new_files) = args.num_class_images - c
                      /\ Cardinality({f.name : f \in new_files}) = Cardinality(new_files)

(***************************************************************************)
(* One call of CustomDiffusionDataset.preprocess, lines 151-170            *)
(***************************************************************************)
\* The image preprocess returns: its shape and the pixels of it that hold
\* image data (the others are the zeros of np.zeros, line 160).
preprocess_image(size, scale, top, left) ==
    IF scale > size
    THEN \* line 163: a crop of the resized scale x scale image
         LET rows == PySlice(top, top + size, scale)
             cols == PySlice(left, left + size, scale)
         IN  [shape |-> <<Cardinality(rows), Cardinality(cols)>>,
              image_pixels |-> (0 .. Cardinality(rows) - 1) \X (0 .. Cardinality(cols) - 1)]
    ELSE \* line 166: the resized image pasted into the zeros
         [shape |-> <<size, size>>,
          image_pixels |-> PySlice(top, top + scale, size) \X PySlice(left, left + scale, size)]

\* the calls: any size, a mask_size the floor division of line 153 accepts,
\* and a scale below, at or above the size
PreprocessCalls ==
    UNION {[size : {sz}, mask_size : 1 .. sz, scale : 1 .. ((14 * Size) \div 10)] :
              sz \in 1 .. Size}

InitPreprocess ==
    /\ preprocess_call \in PreprocessCalls
    /\ preprocess_ret = <<>>
    /\ pc = "preprocess"
    /\ args = <<>>
    /\ LoopIdle
    /\ SetupIdle
    /\ WeightsIdle

Preprocess ==
    /\ pc = "preprocess"
    /\ LET size == preprocess_call.size
           scale == preprocess_call.scale
           outer == IF scale > size THEN scale ELSE size
           inner == IF scale > size THEN size ELSE scale
       IN  \E top \in 0 .. outer - inner, left \in 0 .. outer - inner :
              preprocess_ret' =
                  [top |-> top, left |-> left,
                   instance_image |-> preprocess_image(size, scale, top, left),
                   mask |-> preprocess(size, preprocess_call.mask_size, scale, top, left)]
    /\ pc' = "returned"
    /\ UNCHANGED <<args, preprocess_call, loop_data, setup_vars, weight_vars>>

SpecPreprocess == InitPreprocess /\ [][Preprocess]_vars

\* The pixels that cell c of a mask covers when one cell stands for f x f pixels.
CellPixelsAt(c, f) ==
    ((c[1] * f) .. (c[1] * f + f - 1)) \X ((c[2] * f) .. (c[2] * f + f - 1))

\* C15: for scale <= size every mask cell preprocess sets to 1 covers only
\* pixels of the pasted region [top, top+scale) x [left, left+scale); for
\* scale > size the mask is all ones and the image returned is size x size
\* and holds no padding.
C15_MaskInsidePastedRegion ==
    pc = "returned" =>
        LET size == preprocess_call.size
            scale == preprocess_call.scale
            top == preprocess_ret.top
            left == preprocess_ret.left
            f == factor(size, preprocess_call.mask_size)
            m == preprocess_ret.mask
            pasted == (top .. top + scale - 1) \X (left .. left + scale - 1)
        IN  IF scale <= size
            THEN \A c \in DOMAIN m : m[c] = 1 => CellPixelsAt(c, f) \subseteq pasted
            ELSE /\ \A c \in DOMAIN m : m[c] = 1
                 /\ preprocess_ret.instance_image.shape = <<size, size>>
                 /\ preprocess_ret.instance_image.image_pixels
                       = (0 .. size - 1) \X (0 .. size - 1)

(***************************************************************************)
(* The weights: which are frozen, which the optimizer holds, and what a    *)
(* training step changes (main lines 645-647, 688-769, 946-966)            *)
(***************************************************************************)
NumBlocks == 2

\* An attention layer of the UNet: its block and "attn1" (self-attention)
\* or "attn2" (cross-attention).  The processor of layer l has the name
\* l + ".processor", so name.endswith("attn1.processor") is l[2] = "attn1".
AttnLayers == (1 .. NumBlocks) \X {"attn1", "attn2"}
NoLayer == <<0, "">>

Weight(module, layer, name) == [module |-> module, layer |-> layer, name |-> name]

\* the weights of the models as from_pretrained and ARCH_REGISTRY build them
BaseWeights(layers) ==
    {Weight("vae", NoLayer, "encoder.conv_in.weight"),
     Weight("text_encoder", NoLayer, "embeddings.weight"),
     Weight("net", NoLayer, "encoder.weight"),
     Weight("unet", NoLayer, "conv_in.weight")}
    \cup {Weight("unet", l, n) :
             l \in layers,
             n \in {"to_q.weight", "to_k.weight", "to_v.weight",
                    "to_out.0.weight", "to_out.0.bias"}}

KVWeights == {"to_k_custom_diffusion.weight", "to_v_custom_diffusion.weight"}
QOutWeights == {"to_q_custom_diffusion.weight", "to_out_custom_diffusion.0.weight",
                "to_out_custom_diffusion.0.bias"}

\* line 689
train_kv == TRUE
\* line 690
train_q_out_always(freeze_model) == TRUE

train_q_out(freeze_model) == IF freeze_model = "crossattn_kv" THEN FALSE ELSE TRUE

\* attention_class(train_kv=..., train_q_out=...): the processor creates the
\* linear layers its two flags ask for (lines 715-728)
attention_class(kv, q_out) ==
    [train_kv |-> kv, train_q_out |-> q_out,
     params |-> (IF kv THEN KVWeights ELSE {}) \cup (IF q_out THEN QOutWeights ELSE {})]

\* lines 696-729, one pass of the loop: the processor made for a layer
custom_diffusion_attn_proc(layer, freeze_model) ==
    IF layer[2] # "attn1"
    THEN attention_class(train_kv, train_q_out(freeze_model))
    ELSE attention_class(FALSE, FALSE)

\* the weights of the processors, as module.parameters() lists them
ProcessorWeights(procs) ==
    UNION {{Weight("processor", l, n) : n \in procs[l].params} : l \in DOMAIN procs}

LoopTensors == <<is_main_process, instance_files, content, original_images,
                 pertubed_images, mask_list, mask, epoch, random_v,
                 SR_pertubed_images, sq_error, loss, grad, adv_images, eta,
                 adapter, output_dir, hist>>

InitWeights ==
    /\ \E fm \in {"crossattn_kv", "crossattn"}, s \in 0 .. MaxTrainSteps :
          args = [freeze_model |-> fm, max_train_steps |-> s]
    /\ \E layers \in SUBSET AttnLayers :
          /\ layers # {}
          /\ weights = [w \in BaseWeights(layers) |-> 0]
          /\ requires_grad = [w \in BaseWeights(layers) |-> TRUE]
          /\ attn_procs = [l \in layers |-> attention_class(FALSE, FALSE)]
    /\ optimizer_params = {}
    /\ pc = "requires_grad_"
    /\ LoopIdle
    /\ SetupIdle
    /\ PreprocessIdle

\* lines 645-647
FreezeModels ==
    /\ pc = "requires_grad_"
    /\ requires_grad' = [w \in DOMAIN requires_grad |->
                            IF w.module \in {"vae", "text_encoder", "unet"}
                            THEN FALSE ELSE requires_grad[w]]
    /\ pc' = "attn_procs"
    /\ UNCHANGED <<args, attn_procs, optimizer_params, weights, global_step>>
    /\ UNCHANGED <<LoopTensors, setup_vars, preprocess_vars>>

\* lines 688-732: the processors are built and attached; their weights are
\* new tensors (requires_grad is True), filled from the layer's weights by
\* load_state_dict
SetAttnProcessors ==
    /\ pc = "attn_procs"
    /\ attn_procs' = [l \in DOMAIN attn_procs |->
                         custom_diffusion_attn_proc(l, args.freeze_model)]
    /\ LET new == ProcessorWeights(attn_procs')
       IN  /\ requires_grad' = [w \in DOMAIN requires_grad \cup new |->
                                   IF w \in new THEN TRUE ELSE requires_grad[w]]
           /\ weights' = [w \in DOMAIN weights \cup new |->
                             IF w \in new THEN 0 ELSE weights[w]]
    /\ pc' = "optimizer"
    /\ UNCHANGED <<args, optimizer_params, global_step>>
    /\ UNCHANGED <<LoopTensors, setup_vars, preprocess_vars>>

\* lines 733 and 763-769: the optimizer gets custom_diffusion_layers.parameters()
CreateOptimizer ==
    /\ pc = "optimizer"
    /\ optimizer_params' = ProcessorWeights(attn_procs)
    /\ pc' = "train"
    /\ UNCHANGED <<args, requires_grad, attn_procs, weights, global_step>>
    /\ UNCHANGED <<LoopTensors, setup_vars, preprocess_vars>>

\* lines 946-970: backward gives a gradient to every weight that requires
\* one, optimizer.step() updates those of them the optimizer holds
TrainStep ==
    /\ pc = "train"
    /\ global_step < args.max_train_steps
    /\ weights' = [w \in DOMAIN weights |->
                      IF w \in optimizer_params /\ requires_grad[w]
                      THEN weights[w] + 1 ELSE weights[w]]
    /\ global_step' = global_step + 1
    /\ UNCHANGED <<args, pc, requires_grad, attn_procs, optimizer_params>>
    /\ UNCHANGED <<LoopTensors, setup_vars, preprocess_vars>>

NextWeights ==
    \/ FreezeModels
    \/ SetAttnProcessors
    \/ CreateOptimizer
    \/ TrainStep

SpecWeights == InitWeights /\ [][NextWeights]_vars

\* the adapter weights of cross-attention processors that freeze_model lets train
TrainableAdapterWeights ==
    {w \in DOMAIN weights :
        /\ w.module = "processor"
        /\ w.layer[2] = "attn2"
        /\ w.name \in KVWeights
                      \cup (IF args.freeze_model = "crossattn" THEN QOutWeights ELSE {})}

\* C16: no base weight of the UNet, the VAE or the text encoder changes;
\* what the optimizer updates are adapter weights of cross-attention
\* processors, key/value always and query/output only under 'crossattn';
\* self-attention processors carry no trainable weight.
C16_OnlyCrossAttentionAdaptersTrained ==
    /\ \A w \in DOMAIN weights :
          w.module \in {"unet", "vae", "text_encoder"} => weights[w] = 0
    /\ \A w \in DOMAIN weights : weights[w] > 0 => w \in TrainableAdapterWeights
    /\ optimizer_params \subseteq TrainableAdapterWeights
    /\ pc = "train" =>
          /\ \A w \in DOMAIN requires_grad :
                w.module \in {"unet", "vae", "text_encoder"} => ~requires_grad[w]
          /\ \A l \in DOMAIN attn_procs : l[2] = "attn1" => attn_procs[l].params = {}
          /\ \A w \in DOMAIN weights :
                (w.module = "processor" /\ w.layer[2] = "attn1") => ~requires_grad[w]

C16_Witness ==
    /\ pc = "train"
    /\ global_step = args.max_train_steps
    /\ global_step >= 1
    /\ args.freeze_model = "crossattn_kv"
    /\ \E l \in DOMAIN attn_procs : l[2] = "attn1"
    /\ \E w \in optimizer_params : w.name \in KVWeights /\ weights[w] = global_step

====
